---- MODULE Spec2Model ----
(***************************************************************************)
(* A model of the vendeeglobe race engine.                                 *)
(*                                                                         *)
(*   Engine (engine.py)        the tick: update, call_player_bots,         *)
(*                             move_players, shutdown                      *)
(*   Controller (main.py)      set_schedule, the greedy load balancer      *)
(*   play (main.py)            the split of the bots over the engines, the *)
(*                             game-flow flags                             *)
(*   Weather (weather.py)      get_uv, the wind lookup; get_forecast       *)
(*   utils.py                  distance_on_surface, wrap,                  *)
(*                             longitude_difference                        *)
(*                                                                         *)
(* The world is the sphere sampled at four points, latitude -60 or 60 and  *)
(* longitude -180 or 0.  At these points the haversine term is a multiple  *)
(* of 1/16 and the arc a multiple of 60 degrees, so distance_on_surface is *)
(* computed exactly, in degrees of arc.                                    *)
(***************************************************************************)
EXTENDS Integers, Sequences, FiniteSets, TLC

(***************************************************************************)
(* Bounds of the model.                                                    *)
(***************************************************************************)
\* Engine's time_limit argument (seconds).
time_limit == 2
\* Largest number of points of a candidate path.
MaxPathLen == 3
\* Latitude bands of the wind field (the source uses 128).
ny == 2

(***************************************************************************)
(* Configuration (the config module).                                      *)
(***************************************************************************)
score_step == 100
weather_update_interval == 1
start == [latitude |-> 60, longitude |-> 0, radius |-> 30]
checkpoints ==
  << [latitude |-> 60, longitude |-> -180, radius |-> 30],
     [latitude |-> -60, longitude |-> 0, radius |-> 130] >>

\* The teams of the bots handed to Engine, in the order of the players dict.
TeamList == <<"Ada", "Bo">>
n_players == Len(TeamList)
Teams == { TeamList[i] : i \in 1..n_players }
Latitudes == {-60, 60}
Longitudes == {-180, 0}
Points == [latitude : Latitudes, longitude : Longitudes]
CheckpointIds == 1..Len(checkpoints)

\* Returned by a bot that gives no instructions.
None == [kind |-> "none", heading |-> 0, speed |-> 0]
\* The fastest time of a team that never finished.
NeverFinished == 1000000

Max(a, b) == IF a >= b THEN a ELSE b
Min(a, b) == IF a <= b THEN a ELSE b
Abs(a) == IF a >= 0 THEN a ELSE -a

(***************************************************************************)
(* utils.distance_on_surface: the haversine formula.                       *)
(***************************************************************************)
\* 4 * sin(d/2)^2 for a difference d of two sampled angles.
Sin2Half4(d) ==
  CASE Abs(d) = 0 -> 0
    [] Abs(d) = 120 -> 3
    [] Abs(d) = 180 -> 4

\* 2 * cos(lat) at the sampled latitudes.
Cos2(lat) == CASE Abs(lat) = 60 -> 1

\* 2 * atan2(sqrt(a), sqrt(1 - a)) in degrees, given 16 * a.
ArcDegrees(a16) ==
  CASE a16 = 0 -> 0
    [] a16 = 4 -> 60
    [] a16 = 12 -> 120
    [] a16 = 16 -> 180

distance_on_surface(longitude1, latitude1, longitude2, latitude2) ==
  LET dlon == longitude2 - longitude1
      dlat == latitude2 - latitude1
      a16 == 4 * Sin2Half4(dlat)
             + Cos2(latitude1) * Cos2(latitude2) * Sin2Half4(dlon)
  IN  ArcDegrees(a16)

(***************************************************************************)
(* Map.get_terrain: 1 is sea, 0 is land.  One of the four points is land.  *)
(***************************************************************************)
get_terrain(pt) ==
  IF pt.latitude = -60 /\ pt.longitude = -180 THEN 0 ELSE 1

(***************************************************************************)
(* Weather.get_uv: nearest-cell lookup in the wind field.                  *)
(***************************************************************************)
nx == ny * 2

\* Line 41: self.nt = int(time_limit / config.weather_update_interval)
number_of_steps(limit, interval) == limit \div interval

nt == number_of_steps(time_limit, weather_update_interval)

\* A wind field whose cells all differ.
WindField(it, iv, iu) == 1 + iu + nx * (iv + ny * it)

\* Lines 153-155, for latitudes from -90, longitudes from -180 and times
\* from 0 up: dv is 180 / ny and du is 360 / nx.
lat_index(lat) == ((lat + 90) * ny) \div 180
lon_index(lon) == ((lon + 180) * nx) \div 360
time_index(t, interval, steps) == (t \div interval) % steps

get_uv(lat, lon, t) ==
  WindField(time_index(t, weather_update_interval, nt),
            lat_index(lat), lon_index(lon))

(***************************************************************************)
(* State.                                                                  *)
(***************************************************************************)
VARIABLES
  test,                 \* Engine.test; safe is its negation
  speedup,              \* Engine.speedup: <<>> for None, <<s>> for s
  timer,                \* the QTimer: "running", "stopped" or "crashed"
  pc,                   \* where update is: "idle", "bots", "move", "end", "raised"
  idx,                  \* position of the running for loop (1-based)
  clock_time,           \* update's clock_time
  previous_clock_time,
  current_time,
  shutdown_calls,       \* how many times shutdown has run
  last_forecast_update, \* clock_time of the last forecast refresh
  forecast_time,        \* the race time t of self.forecast = get_forecast(t)
  latitude, longitude, heading, speed, distance_travelled,
  reached,              \* reached[p][k]: checkpoint k of player p
  arrived, bonus,
  players_not_arrived,  \* a list of teams
  fastest_times,
  u,                    \* move_players' wind array, one entry per player
  queue,                \* the list move_players iterates over
  turn,                 \* the last turn of move_players' loop in this tick:
                        \* its player, the first land index of its path
                        \* (-1: none), the wind handed to get_path and
                        \* the number of points of its path
  outcome,              \* what the bot call of the last step did ("none"
                        \* after any other step)
  invoked,              \* teams whose bot was called in this tick, in order
  moved,                \* teams move_players has processed in this tick
  arrival_order,        \* teams in the order they arrived
  times,                \* set_schedule: the measured cost of each player
  time_groups,          \* set_schedule: the costs put in each group
  player_groups,        \* Controller.player_groups: the players of each group
  scheduled,            \* whether set_schedule has run
  game_flow,            \* play's shared game_flow array: <<pause, exit>>
  exit_requested_at,    \* clock_time when the exit flag was set (-1: not set)
  input,                \* the arguments of a function under study
  output                \* <<>> before the call, <<its result>> after

forecast_vars == <<last_forecast_update, forecast_time>>
engine_vars == <<test, speedup, timer, pc, idx, clock_time, previous_clock_time,
                 current_time, shutdown_calls, forecast_vars>>
player_vars == <<latitude, longitude, heading, speed, distance_travelled,
                 reached, arrived, bonus>>
race_vars == <<players_not_arrived, fastest_times>>
loop_vars == <<u, queue>>
history_vars == <<turn, outcome, invoked, moved, arrival_order>>
schedule_vars == <<times, time_groups, player_groups, scheduled>>
flow_vars == <<game_flow, exit_requested_at>>
call_vars == <<input, output>>
vars == <<engine_vars, player_vars, race_vars, loop_vars, history_vars,
          schedule_vars, flow_vars, call_vars>>

\* self.safe = test: the flag taken over without the negation.
safe_not_negated == test

safe == ~test

\* The wall-clock gaps between two timer ticks that are tried (seconds).
TickSeconds == {1}

\* The clock readings that are followed: a timer still running at MaxClock
\* fires no more.  With ticks of one second the time limit is passed at
\* time_limit + 1 at the latest.
MaxClock == time_limit + 2

\* The speedup settings tried: None and 2.
Speedups == {<<>>, <<2>>}

NoTurn == [player |-> "", first_land |-> -1, wind |-> 0, points |-> -1]
\* Player.__init__ (heading and speed before any instruction).
InitialHeading == 180
InitialSpeed == 0

\* What a call of a bot's run can do: raise, return None, or return
\* instructions.
Raise == [kind |-> "raise", heading |-> 0, speed |-> 0]
Instructions == { [kind |-> "instructions", heading |-> 90, speed |-> 5] }
BotOutcomes == {Raise, None} \cup Instructions

\* Candidate paths: the sequences of at most MaxPathLen points that stay on
\* one sea point and end there or on their first land point.  move_players
\* reads of a path only where its first land point is and which point
\* precedes it, and every such outcome has a path here.
SeaPointsOf(path) == { path[k] : k \in { j \in DOMAIN path : get_terrain(path[j]) = 1 } }
Paths ==
  { path \in UNION { [1..n -> Points] : n \in 0..MaxPathLen } :
      /\ Cardinality(SeaPointsOf(path)) <= 1
      /\ \A k \in DOMAIN path : get_terrain(path[k]) = 0 => k = Len(path) }

RangeOf(s) == { s[i] : i \in DOMAIN s }

\* [p for p in self.players.values() if not p.arrived]
RECURSIVE NotArrivedFrom(_, _)
NotArrivedFrom(i, arr) ==
  IF i > n_players THEN <<>>
  ELSE (IF arr[TeamList[i]] THEN <<>> ELSE <<TeamList[i]>>)
       \o NotArrivedFrom(i + 1, arr)

\* list.remove(x): drops the first occurrence of x.
RECURSIVE ListRemove(_, _)
ListRemove(s, x) ==
  IF s = <<>> THEN <<>>
  ELSE IF Head(s) = x THEN Tail(s)
  ELSE <<Head(s)>> \o ListRemove(Tail(s), x)

EngineInit ==
  /\ test \in BOOLEAN
  /\ speedup \in Speedups
  /\ timer = "running"
  /\ pc = "idle"
  /\ idx = 0
  /\ clock_time = 0
  /\ previous_clock_time = 0
  /\ current_time = 0
  /\ shutdown_calls = 0
  /\ last_forecast_update = 0
  /\ forecast_time = 0
  /\ latitude = [p \in Teams |-> start.latitude]
  /\ longitude = [p \in Teams |-> start.longitude]
  /\ heading = [p \in Teams |-> InitialHeading]
  /\ speed = [p \in Teams |-> InitialSpeed]
  /\ distance_travelled = [p \in Teams |-> 0]
  /\ reached = [p \in Teams |-> [k \in CheckpointIds |-> FALSE]]
  /\ arrived = [p \in Teams |-> FALSE]
  /\ bonus = [p \in Teams |-> 0]
  /\ players_not_arrived = TeamList
  /\ fastest_times = [p \in Teams |-> NeverFinished]
  /\ u = <<>>
  /\ queue = <<>>
  /\ turn = NoTurn
  /\ outcome = "none"
  /\ invoked = <<>>
  /\ moved = {}
  /\ arrival_order = <<>>
  /\ game_flow = <<0, 0>>
  /\ exit_requested_at = -1

\* The state after Engine's construction and run(): the timer is started, no
\* schedule is computed.
Init ==
  /\ EngineInit
  /\ times = <<>>
  /\ time_groups = <<>>
  /\ player_groups = <<>>
  /\ scheduled = FALSE
  /\ input = <<>>
  /\ output = <<>>

(***************************************************************************)
(* Engine.shutdown: finalizes the scores, writes the fastest times and     *)
(* stops the timer.  It does not end the update that called it.            *)
(***************************************************************************)
\* shutdown without its last line, timer.stop().
shutdown_without_stop ==
  /\ shutdown_calls' = shutdown_calls + 1
  /\ timer' = timer

shutdown ==
  /\ shutdown_calls' = shutdown_calls + 1
  /\ timer' = IF timer = "running" THEN "stopped" ELSE timer

(***************************************************************************)
(* Engine.update, lines 215-232: the timer fires, the clock is read and    *)
(* the race time advanced; past the time limit shutdown is called and the  *)
(* update goes on.                                                         *)
(***************************************************************************)
\* Lines 215-221, for a clock reading `clock`: start_time is 0.
current_time_after(current, previous_clock, clock, sp) ==
  LET dt_raw == clock - previous_clock
  IN  IF sp # <<>> THEN current + dt_raw * sp[1] ELSE clock - 0

NextCurrentTime(clock, sp) ==
  current_time_after(current_time, previous_clock_time, clock, sp)

\* Line 230: whether the forecast is generated anew, by the wall clock.
forecast_is_due(clock, last_update, interval) == (clock - last_update) > interval

update_begin ==
  /\ pc = "idle"
  /\ timer = "running"
  /\ clock_time < MaxClock
  /\ \E delta \in TickSeconds :
       /\ clock_time' = clock_time + delta
       /\ current_time' = NextCurrentTime(clock_time + delta, speedup)
  /\ IF current_time' > time_limit
       THEN shutdown
       ELSE UNCHANGED <<shutdown_calls, timer>>
  /\ IF forecast_is_due(clock_time', last_forecast_update, weather_update_interval)
       THEN /\ forecast_time' = current_time'
            /\ last_forecast_update' = clock_time'
       ELSE UNCHANGED forecast_vars
  /\ pc' = "bots"
  /\ idx' = 1
  /\ UNCHANGED <<test, speedup, previous_clock_time, schedule_vars, flow_vars,
                 call_vars>>
  /\ UNCHANGED <<player_vars, race_vars, loop_vars, history_vars>>

(***************************************************************************)
(* Engine.execute_player_bot: instructions starts as None (line 105) and   *)
(* the bot's run is called.  In safe mode a raise of run is swallowed      *)
(* (lines 118-121) and the None is returned; otherwise the raise           *)
(* propagates.                                                             *)
(***************************************************************************)
execute_player_bot(run, is_safe) ==
  IF is_safe
    THEN (IF run.kind = "raise" THEN None ELSE run)
    ELSE run

\* Player.execute_bot_instructions: None changes nothing, instructions set
\* the heading and the speed.
execute_bot_instructions(player, instructions) ==
  IF instructions.kind = "instructions"
    THEN /\ heading' = [heading EXCEPT ![player] = instructions.heading]
         /\ speed' = [speed EXCEPT ![player] = instructions.speed]
    ELSE UNCHANGED <<heading, speed>>

\* move_players, lines 141-144: the wind at every player's position and the
\* list of the players still racing.
WindArray ==
  [i \in 1..n_players |->
     get_uv(latitude[TeamList[i]], longitude[TeamList[i]], current_time)]

\* The loop without its "if not p.arrived" filter.
ActivePlayers_unfiltered(arr) == TeamList

ActivePlayers(arr) == NotArrivedFrom(1, arr)

(***************************************************************************)
(* Engine.call_player_bots: one turn of its loop over all the players.     *)
(* After the last player move_players is entered.                          *)
(***************************************************************************)
\* A bare except around the call in both modes.
propagates_never(result, is_safe) == FALSE

\* Whether what execute_player_bot did leaves call_player_bots as an
\* exception: in safe mode the loop's own try would swallow it (lines
\* 128-134).
propagates(result, is_safe) == result.kind = "raise" /\ ~is_safe

call_player_bot ==
  /\ pc = "bots"
  /\ \E outcome_of_call \in BotOutcomes :
       LET player == TeamList[idx]
           result == execute_player_bot(outcome_of_call, safe)
       IN  /\ invoked' = Append(invoked, player)
           /\ outcome' = outcome_of_call.kind
           /\ IF propagates(result, safe)
                THEN /\ pc' = "raised"
                     /\ UNCHANGED <<idx, heading, speed, u, queue>>
                ELSE /\ execute_bot_instructions(player, result)
                     /\ IF idx < n_players
                          THEN /\ idx' = idx + 1
                               /\ UNCHANGED <<pc, u, queue>>
                          ELSE /\ u' = WindArray
                               /\ queue' = ActivePlayers(arrived)
                               /\ idx' = 1
                               /\ pc' = IF ActivePlayers(arrived) = <<>>
                                          THEN "end" ELSE "move"
  /\ UNCHANGED forecast_vars
  /\ UNCHANGED <<test, speedup, timer, clock_time, previous_clock_time,
                 current_time, shutdown_calls, schedule_vars, flow_vars,
                 call_vars>>
  /\ UNCHANGED <<latitude, longitude, distance_travelled, reached, arrived, bonus>>
  /\ UNCHANGED <<race_vars, turn, moved, arrival_order>>

(***************************************************************************)
(* Engine.move_players, lines 145-206: one turn of its loop.               *)
(***************************************************************************)
\* terrain = self.map.get_terrain(longitudes=lon, latitudes=lat)
TerrainAlong(path) == [k \in 1..Len(path) |-> get_terrain(path[k])]

\* w = np.where(terrain == 0)[0], as a set of 0-based indices.
LandIndices(terrain) == { k - 1 : k \in { j \in 1..Len(terrain) : terrain[j] = 0 } }

SetMin(S) == CHOOSE x \in S : \A y \in S : x <= y

\* w[0], or -1 when the path touches no land.
first_land(terrain) ==
  IF LandIndices(terrain) = {} THEN -1 ELSE SetMin(LandIndices(terrain))

\* ind = max(w[0], 0): the step back from the first land point forgotten.
chosen_index_on_land(terrain) ==
  LET w == LandIndices(terrain)
  IN  IF Cardinality(w) > 0
        THEN Max(SetMin(w), 0)
        ELSE Len(terrain) - 1

\* Lines 148-151: the 0-based index of the path point to commit.
chosen_index(terrain) ==
  LET w == LandIndices(terrain)
  IN  IF Cardinality(w) > 0
        THEN Max(SetMin(w) - 1, 0)
        ELSE Len(terrain) - 1

\* checkpoint.reached = d < checkpoint.radius, whatever it was.
checkpoint_reached_by_distance(was_reached, d, radius) == d < radius

\* Lines 168-176: a checkpoint's flag after the distance test.
checkpoint_reached(was_reached, d, radius) ==
  IF ~was_reached
    THEN (IF d < radius THEN TRUE ELSE was_reached)
    ELSE was_reached

\* The finish test without its all(ch.reached ...) half.
finished_by_radius(lon, lat, flags) ==
  distance_on_surface(lon, lat, start.longitude, start.latitude) < start.radius

\* Lines 178-186: the finish test.
finished(lon, lat, flags) ==
  /\ distance_on_surface(lon, lat, start.longitude, start.latitude) < start.radius
  /\ \A k \in CheckpointIds : flags[k]

\* Line 145: the wind handed to get_path in turn i (0-based) of the loop.
wind_for_turn(i, player) == u[i + 1]

\* The remove of line 203 left out.
not_arrived_after_kept(list, team) == list

\* Line 203: self.players_not_arrived.remove(player.team)
not_arrived_after(list, team) == ListRemove(list, team)

\* The time of this arrival is stored whatever was stored before.
fastest_time_latest(t, stored) == t

\* Lines 204-206: min(t, self.fastest_times[player.team])
fastest_time_after(t, stored) == Min(t, stored)

\* if ind >= 0: index 0 taken for a point to move to.
commits_index_zero(ind) == ind >= 0

\* Line 152: whether the chosen point is committed.
commits(ind) == ind > 0

\* The player's state after one turn of the loop for `path`.
turn_result(player, path) ==
  LET ind == chosen_index(TerrainAlong(path))
      goes == commits(ind)
      next_lat == IF goes THEN path[ind + 1].latitude ELSE latitude[player]
      next_lon == IF goes THEN path[ind + 1].longitude ELSE longitude[player]
      flags ==
        [k \in CheckpointIds |->
           checkpoint_reached(
             reached[player][k],
             distance_on_surface(next_lon, next_lat,
                                 checkpoints[k].longitude,
                                 checkpoints[k].latitude),
             checkpoints[k].radius)]
  IN  [ latitude |-> next_lat,
        longitude |-> next_lon,
        travelled |->
          IF goes
            THEN distance_on_surface(longitude[player], latitude[player],
                                     next_lon, next_lat)
            ELSE 0,
        reached |-> flags,
        finish |-> finished(next_lon, next_lat, flags) ]

move_player ==
  /\ pc = "move"
  /\ \E path \in Paths :
       LET player == queue[idx]
           t == current_time
       IN  \E r \in {turn_result(player, path)} :
           /\ turn' = [player |-> player,
                       first_land |-> first_land(TerrainAlong(path)),
                       wind |-> wind_for_turn(idx - 1, player),
                       points |-> Len(path)]
           /\ moved' = moved \cup {player}
           /\ latitude' = [latitude EXCEPT ![player] = r.latitude]
           /\ longitude' = [longitude EXCEPT ![player] = r.longitude]
           /\ distance_travelled' =
                [distance_travelled EXCEPT ![player] = @ + r.travelled]
           /\ reached' = [reached EXCEPT ![player] = r.reached]
           /\ IF r.finish
                THEN /\ arrived' = [arrived EXCEPT ![player] = TRUE]
                     /\ bonus' = [bonus EXCEPT ![player] =
                                    score_step * Len(players_not_arrived)]
                     /\ players_not_arrived' =
                          not_arrived_after(players_not_arrived, player)
                     /\ fastest_times' =
                          [fastest_times EXCEPT ![player] =
                             fastest_time_after(t, @)]
                     /\ arrival_order' = Append(arrival_order, player)
                ELSE UNCHANGED <<arrived, bonus, players_not_arrived,
                                 fastest_times, arrival_order>>
  /\ IF idx < Len(queue)
       THEN /\ idx' = idx + 1
            /\ pc' = pc
       ELSE /\ idx' = 0
            /\ pc' = "end"
  /\ UNCHANGED forecast_vars
  /\ UNCHANGED <<test, speedup, timer, clock_time, previous_clock_time,
                 current_time, shutdown_calls, schedule_vars, flow_vars,
                 call_vars>>
  /\ outcome' = "none"
  /\ UNCHANGED <<heading, speed, u, queue, invoked>>

(***************************************************************************)
(* Engine.update, lines 243-248: with nobody left racing shutdown is       *)
(* called; the clock reading is kept for the next tick.                    *)
(***************************************************************************)
update_end ==
  /\ pc = "end"
  /\ IF Len(players_not_arrived) = 0
       THEN shutdown
       ELSE UNCHANGED <<shutdown_calls, timer>>
  /\ previous_clock_time' = clock_time
  /\ pc' = "idle"
  /\ idx' = 0
  /\ u' = <<>>
  /\ queue' = <<>>
  /\ turn' = NoTurn
  /\ outcome' = "none"
  /\ invoked' = <<>>
  /\ moved' = {}
  /\ UNCHANGED forecast_vars
  /\ UNCHANGED <<test, speedup, clock_time, current_time, schedule_vars,
                 flow_vars, call_vars>>
  /\ UNCHANGED <<player_vars, race_vars, arrival_order>>

(***************************************************************************)
(* Engine.update, lines 236-239, with the "Wind tracers" box checked (as   *)
(* it is created, line 316): update_wind_tracers is called with a speedup  *)
(* keyword that Weather.update_wind_tracers (weather.py line 160) does not *)
(* take, so a TypeError leaves update after move_players.  Lines 240-248   *)
(* are skipped: no shutdown when nobody is left racing, and                *)
(* previous_clock_time keeps its value.  What the timer does next is the   *)
(* Qt binding's choice, as in update_raises.                               *)
(***************************************************************************)
update_wind_tracers_raises ==
  /\ pc = "end"
  /\ timer' \in {timer, "crashed"}
  /\ pc' = "idle"
  /\ idx' = 0
  /\ u' = <<>>
  /\ queue' = <<>>
  /\ turn' = NoTurn
  /\ outcome' = "none"
  /\ invoked' = <<>>
  /\ moved' = {}
  /\ UNCHANGED forecast_vars
  /\ UNCHANGED <<test, speedup, clock_time, previous_clock_time, current_time,
                 shutdown_calls, schedule_vars, flow_vars, call_vars>>
  /\ UNCHANGED <<player_vars, race_vars, arrival_order>>

(***************************************************************************)
(* An exception leaves update (unsafe mode).  The rest of the tick is      *)
(* skipped, previous_clock_time included.  What the timer does next is the *)
(* Qt binding's choice: PyQt5 aborts the process, PySide2 reports the      *)
(* exception and keeps the timer running.                                  *)
(***************************************************************************)
update_raises ==
  /\ pc = "raised"
  /\ timer' \in {timer, "crashed"}
  /\ pc' = "idle"
  /\ idx' = 0
  /\ invoked' = <<>>
  /\ outcome' = "none"
  /\ UNCHANGED forecast_vars
  /\ UNCHANGED <<test, speedup, clock_time, previous_clock_time, current_time,
                 shutdown_calls, schedule_vars, flow_vars, call_vars>>
  /\ UNCHANGED <<player_vars, race_vars, loop_vars, turn, moved, arrival_order>>

Next ==
  \/ update_begin
  \/ call_player_bot
  \/ move_player
  \/ update_end
  \/ update_wind_tracers_raises
  \/ update_raises

Spec == Init /\ [][Next]_vars

(***************************************************************************)
(* The race with a timer that keeps firing and updates that run to their   *)
(* end: a step of the race that can be taken is taken.                     *)
(***************************************************************************)
SpecTermination == Init /\ [][Next]_vars /\ WF_vars(Next)

(***************************************************************************)
(* A race of teams that raced before: read_fastest_times (line 93) finds   *)
(* for each team the best time stored by earlier runs, here a time of 1 or *)
(* none.  The race is run in test mode without speedup.                    *)
(***************************************************************************)
StoredTimes == {1, NeverFinished}

FastestInit ==
  /\ test = TRUE
  /\ speedup = <<>>
  /\ timer = "running"
  /\ pc = "idle"
  /\ idx = 0
  /\ clock_time = 0
  /\ previous_clock_time = 0
  /\ current_time = 0
  /\ shutdown_calls = 0
  /\ last_forecast_update = 0
  /\ forecast_time = 0
  /\ latitude = [p \in Teams |-> start.latitude]
  /\ longitude = [p \in Teams |-> start.longitude]
  /\ heading = [p \in Teams |-> InitialHeading]
  /\ speed = [p \in Teams |-> InitialSpeed]
  /\ distance_travelled = [p \in Teams |-> 0]
  /\ reached = [p \in Teams |-> [k \in CheckpointIds |-> FALSE]]
  /\ arrived = [p \in Teams |-> FALSE]
  /\ bonus = [p \in Teams |-> 0]
  /\ players_not_arrived = TeamList
  /\ fastest_times \in [Teams -> StoredTimes]
  /\ u = <<>>
  /\ queue = <<>>
  /\ turn = NoTurn
  /\ outcome = "none"
  /\ invoked = <<>>
  /\ moved = {}
  /\ arrival_order = <<>>
  /\ game_flow = <<0, 0>>
  /\ exit_requested_at = -1
  /\ times = <<>>
  /\ time_groups = <<>>
  /\ player_groups = <<>>
  /\ scheduled = FALSE
  /\ input = <<>>
  /\ output = <<>>

SpecFastest == FastestInit /\ [][Next]_vars

(***************************************************************************)
(* The game-flow flags.  play (main.py lines 549, 597-600) puts the array  *)
(* <<pause, exit>> in shared memory, zeroed, and hands it to the graphics  *)
(* process, which is the one to set the flags.  Here a flag is set between *)
(* two ticks of the engine, one flag in a run.  No line of Engine.update   *)
(* reads the array.                                                        *)
(***************************************************************************)
press_pause ==
  /\ pc = "idle"
  /\ timer = "running"
  /\ game_flow = <<0, 0>>
  /\ game_flow' = <<1, 0>>
  /\ UNCHANGED <<exit_requested_at, engine_vars, player_vars, race_vars,
                 loop_vars, history_vars, schedule_vars, call_vars>>

press_exit ==
  /\ pc = "idle"
  /\ timer = "running"
  /\ game_flow = <<0, 0>>
  /\ game_flow' = <<0, 1>>
  /\ exit_requested_at' = clock_time
  /\ UNCHANGED <<engine_vars, player_vars, race_vars, loop_vars, history_vars,
                 schedule_vars, call_vars>>

\* A race in safe mode, without speedup.
GameFlowInit ==
  /\ Init
  /\ test = FALSE
  /\ speedup = <<>>

GameFlowNext ==
  \/ update_begin
  \/ call_player_bot
  \/ move_player
  \/ update_end
  \/ press_pause
  \/ press_exit

SpecGameFlow == GameFlowInit /\ [][GameFlowNext]_vars

(***************************************************************************)
(* Controller.set_schedule (main.py): the players are put in ng groups,    *)
(* costliest first, each in the group whose costs sum to the least.        *)
(***************************************************************************)
\* Bounds: the largest measured cost and the largest number of players.
MaxCost == 5
MaxScheduled == 5

ng == 3

RECURSIVE SeqSum(_)
SeqSum(s) == IF s = <<>> THEN 0 ELSE Head(s) + SeqSum(Tail(s))

\* Inserts the pair t = <<cost, player>> after every pair whose cost is not
\* smaller: with sort_descending, sorted(times, key=cost, reverse=True),
\* which keeps equal costs in their order.
RECURSIVE insert_descending(_, _)
insert_descending(sorted, t) ==
  IF sorted = <<>> THEN <<t>>
  ELSE IF Head(sorted)[1] >= t[1]
         THEN <<Head(sorted)>> \o insert_descending(Tail(sorted), t)
         ELSE <<t>> \o sorted

RECURSIVE sort_descending(_, _)
sort_descending(pairs, sorted) ==
  IF pairs = <<>> THEN sorted
  ELSE sort_descending(Tail(pairs), insert_descending(sorted, Head(pairs)))

\* np.argmax in place of np.argmin.
argmax(sums) ==
  CHOOSE i \in DOMAIN sums :
    /\ \A j \in DOMAIN sums : sums[i] >= sums[j]
    /\ \A j \in DOMAIN sums : j < i => sums[j] < sums[i]

\* np.argmin: the first index of the least value; groups are numbered from 0.
argmin(sums) ==
  CHOOSE i \in DOMAIN sums :
    /\ \A j \in DOMAIN sums : sums[i] <= sums[j]
    /\ \A j \in DOMAIN sums : j < i => sums[j] > sums[i]

\* Line 200: the group the next player goes to.
lightest_group(tg) == argmin([i \in DOMAIN tg |-> SeqSum(tg[i])])

\* Lines 199-202: the loop over the sorted costs.
RECURSIVE assign(_, _, _)
assign(order, tg, pg) ==
  IF order = <<>> THEN [time_groups |-> tg, player_groups |-> pg]
  ELSE LET t == Head(order)
           ind == lightest_group(tg)
       IN  assign(Tail(order),
                  [tg EXCEPT ![ind] = Append(@, t[1])],
                  [pg EXCEPT ![ind] = Append(@, t[2])])

\* Lines 203-205 left out: every group is kept.
drop_empty_groups_none(tg, pg) == pg

\* Lines 203-205: the groups left empty are deleted from player_groups.
drop_empty_groups(tg, pg) ==
  [i \in { j \in DOMAIN pg : Len(tg[j]) # 0 } |-> pg[i]]

set_schedule ==
  /\ ~scheduled
  /\ LET pairs == [p \in 1..Len(times) |-> <<times[p], p>>]
         empty == [i \in 0..(ng - 1) |-> <<>>]
     IN  \E r \in {assign(sort_descending(pairs, <<>>), empty, empty)} :
           /\ time_groups' = r.time_groups
           /\ player_groups' = drop_empty_groups(r.time_groups, r.player_groups)
  /\ scheduled' = TRUE
  /\ UNCHANGED <<times, engine_vars, player_vars, race_vars, loop_vars,
                 history_vars, flow_vars, call_vars>>

ScheduleInit ==
  /\ EngineInit
  /\ test = TRUE
  /\ speedup = <<>>
  /\ times \in UNION { [1..n -> 0..MaxCost] : n \in 0..MaxScheduled }
  /\ time_groups = <<>>
  /\ player_groups = <<>>
  /\ scheduled = FALSE
  /\ input = <<>>
  /\ output = <<>>

ScheduleNext == set_schedule

SpecSchedule == ScheduleInit /\ [][ScheduleNext]_vars

(***************************************************************************)
(* Weather.get_uv on its own: a Weather is built for a race duration and   *)
(* an update interval and looked up at a position, at a time t and one     *)
(* race duration later.  Indexing the field outside its shape raises       *)
(* IndexError.                                                             *)
(***************************************************************************)
\* Bounds: the longest race, the longest update interval, the latest time.
MaxDuration == 5
MaxInterval == 2
MaxTime == 5

WeatherLatitudes == {-90, -60, 0, 60, 90}
WeatherLongitudes == {-180, -1, 0, 179}

\* self.u[it, iv, iu] for indices that are not negative.
field_lookup(it, iv, iu, steps) ==
  IF it < steps /\ iv < ny /\ iu < nx
    THEN [raised |-> FALSE, uv |-> WindField(it, iv, iu)]
    ELSE [raised |-> TRUE, uv |-> 0]

weather_get_uv(limit, interval, lat, lon, t) ==
  LET steps == number_of_steps(limit, interval)
  IN  field_lookup(time_index(t, interval, steps), lat_index(lat),
                   lon_index(lon), steps)

WeatherInputs ==
  { a \in [time_limit : 1..MaxDuration, interval : 1..MaxInterval,
            latitude : WeatherLatitudes, longitude : WeatherLongitudes,
            t : 0..MaxTime] :
      a.time_limit >= a.interval }

WeatherInit ==
  /\ EngineInit
  /\ test = TRUE
  /\ speedup = <<>>
  /\ times = <<>>
  /\ time_groups = <<>>
  /\ player_groups = <<>>
  /\ scheduled = FALSE
  /\ input \in WeatherInputs
  /\ output = <<>>

lookup_wind ==
  /\ output = <<>>
  /\ input \in WeatherInputs
  /\ LET steps == number_of_steps(input.time_limit, input.interval)
     IN  output' =
           << [ steps |-> steps,
                it |-> time_index(input.t, input.interval, steps),
                iv |-> lat_index(input.latitude),
                iu |-> lon_index(input.longitude),
                now |-> weather_get_uv(input.time_limit, input.interval,
                                       input.latitude, input.longitude,
                                       input.t),
                later |-> weather_get_uv(input.time_limit, input.interval,
                                         input.latitude, input.longitude,
                                         input.t + input.time_limit) ] >>
  /\ UNCHANGED <<input, engine_vars, player_vars, race_vars, loop_vars,
                 history_vars, schedule_vars, flow_vars>>

WeatherNext == lookup_wind

SpecWeather == WeatherInit /\ [][WeatherNext]_vars

(***************************************************************************)
(* utils.wrap and utils.longitude_difference on their own, on whole        *)
(* degrees.                                                                *)
(***************************************************************************)
\* The engine and the schedule as constructed, nothing running.
AtRest ==
  /\ EngineInit
  /\ test = TRUE
  /\ speedup = <<>>
  /\ times = <<>>
  /\ time_groups = <<>>
  /\ player_groups = <<>>
  /\ scheduled = FALSE

\* Bounds: latitudes are tried in steps of 30 degrees up to 30 * MaxLatSteps
\* either way, longitudes in steps of 90 up to 90 * MaxLonSteps either way.
MaxLatSteps == 13
MaxLonSteps == 6

\* Lines 67-72.  The % of a float by 360.0 is in [0, 360), as % is here.
wrap(lat, lon) ==
  LET out_lat == Max(Min(lat, 180 - lat), -180 - lat)
      shifted == lon + 180
      turned == IF lat > 90 \/ lat < -90 THEN shifted + 180 ELSE shifted
  IN  [lat |-> out_lat, lon |-> (turned % 360) - 180]

WrapInputs ==
  [lat : { 30 * k : k \in -MaxLatSteps..MaxLatSteps },
   lon : { 90 * k : k \in -MaxLonSteps..MaxLonSteps }]

WrapInit ==
  /\ AtRest
  /\ input \in WrapInputs
  /\ output = <<>>

call_wrap ==
  /\ output = <<>>
  /\ input \in WrapInputs
  /\ LET once == wrap(input.lat, input.lon)
     IN  output' = << [once |-> once, twice |-> wrap(once.lat, once.lon)] >>
  /\ UNCHANGED <<input, engine_vars, player_vars, race_vars, loop_vars,
                 history_vars, schedule_vars, flow_vars>>

WrapNext == call_wrap

SpecWrap == WrapInit /\ [][WrapNext]_vars

\* Bound: longitudes are tried in steps of 10 degrees from -180 up to
\* 10 * MaxLonTens.
MaxLonTens == 35

\* Lines 121-130.
longitude_difference(lon1, lon2) ==
  LET lon_diff == lon1 - lon2
      crossing_diff == 360 - Abs(lon_diff)
  IN  IF lon_diff >= 0
        THEN Min(lon_diff, crossing_diff)
        ELSE -Min(-lon_diff, crossing_diff)

DifferenceInputs ==
  [lon1 : { 10 * k : k \in -18..MaxLonTens },
   lon2 : { 10 * k : k \in -18..MaxLonTens }]

DifferenceInit ==
  /\ AtRest
  /\ input \in DifferenceInputs
  /\ output = <<>>

call_longitude_difference ==
  /\ output = <<>>
  /\ input \in DifferenceInputs
  /\ output' = << longitude_difference(input.lon1, input.lon2) >>
  /\ UNCHANGED <<input, engine_vars, player_vars, race_vars, loop_vars,
                 history_vars, schedule_vars, flow_vars>>

DifferenceNext == call_longitude_difference

SpecDifference == DifferenceInit /\ [][DifferenceNext]_vars

(***************************************************************************)
(* Weather.get_forecast on its own: the forecast fields built by           *)
(* Weather.__init__ (lines 88-123) and the snapshots taken from them, for  *)
(* times from 0 up.                                                        *)
(***************************************************************************)
\* Bound: the largest config.forecast_length tried.
MaxForecastLength == 2

\* Lines 88-91: np.arange(0, forecast_length * 6, weather_update_interval),
\* indexed from 0.
number_of_forecasts(length, interval) == (length * 6 + interval - 1) \div interval

forecast_times(length, interval) ==
  [k \in 0..(number_of_forecasts(length, interval) - 1) |-> k * interval]

\* self.u[:, ::i + 1, ::i + 1] at time step it: every (i+1)-th row and column.
strided(i, it) ==
  [a \in 0..((ny + i) \div (i + 1) - 1) |->
    [b \in 0..((nx + i) \div (i + 1) - 1) |->
       WindField(it, a * (i + 1), b * (i + 1))]]

\* Lines 92-120: forecast_u[i][it, j, k]: level 0 is the field itself, level
\* i the strided field with every row and column repeated i + 1 times and
\* cut to ny rows and nx columns.
forecast_u(i, it) ==
  [j \in 0..(ny - 1) |->
    [k \in 0..(nx - 1) |->
       IF i = 0
         THEN WindField(it, j, k)
         ELSE strided(i, it)[j \div (i + 1)][k \div (i + 1)]]]

\* The time index of a snapshot taken at t for the current time.
forecast_time_index_now(t, offset, interval, steps) ==
  (t \div interval) % steps

\* Lines 134-135: the time index of the snapshot for t + offset.
forecast_time_index(t, offset, interval, steps) ==
  ((t + offset) \div interval) % steps

\* Lines 133-143.
get_forecast(t, length, interval, steps) ==
  LET ft == forecast_times(length, interval)
  IN  [ik \in DOMAIN ft |->
         forecast_u(ik, forecast_time_index(t, ft[ik], interval, steps))]

ForecastInputs ==
  { a \in [time_limit : 1..MaxDuration, interval : 1..MaxInterval,
            forecast_length : 1..MaxForecastLength, t : 0..MaxTime] :
      a.time_limit >= a.interval }

ForecastInit ==
  /\ AtRest
  /\ input \in ForecastInputs
  /\ output = <<>>

call_get_forecast ==
  /\ output = <<>>
  /\ input \in ForecastInputs
  /\ output' =
       << get_forecast(input.t, input.forecast_length, input.interval,
                       number_of_steps(input.time_limit, input.interval)) >>
  /\ UNCHANGED <<input, engine_vars, player_vars, race_vars, loop_vars,
                 history_vars, schedule_vars, flow_vars>>

ForecastNext == call_get_forecast

SpecForecast == ForecastInit /\ [][ForecastNext]_vars

(***************************************************************************)
(* play (main.py): the bots are split in n_sub_processes groups, one per   *)
(* engine process, each with the index in the shared player-position       *)
(* buffer where its players begin.                                         *)
(***************************************************************************)
\* Bound: the largest number of bots handed to play.
MaxBots == 3

n_sub_processes == 2

BotNames == {"Ada", "Bo", "Cy", "Di"}

\* Line 515: list({bot.team: bot for bot in bots}.keys()), the teams in the
\* order they first come, each once.
RECURSIVE dict_keys(_, _)
dict_keys(teams, keys) ==
  IF teams = <<>> THEN keys
  ELSE dict_keys(Tail(teams),
                 IF Head(teams) \in RangeOf(keys)
                   THEN keys
                   ELSE Append(keys, Head(teams)))

\* np.array_split(list, sections): the first len % sections parts have
\* len // sections + 1 elements, the others len // sections.
section_start(n, sections, i) ==
  LET each == n \div sections
      extras == n % sections
  IN  IF i <= extras THEN i * (each + 1)
      ELSE extras * (each + 1) + (i - extras) * each

array_split(list, sections) ==
  [i \in 1..sections |->
     SubSeq(list, section_start(Len(list), sections, i - 1) + 1,
            section_start(Len(list), sections, i))]

\* bot_index_begin stays 0: line 683 left out.
index_begins_zero(groups, i, begin) ==
  [j \in 1..Len(groups) |-> 0]

\* Lines 668-683: the bot_index_begin handed to each engine, from group i
\* on, with bot_index_begin = begin so far.
RECURSIVE index_begins(_, _, _)
index_begins(groups, i, begin) ==
  IF i > Len(groups) THEN <<>>
  ELSE <<begin>> \o index_begins(groups, i + 1, begin + Len(groups[i]))

PlayInputs == UNION { [1..n -> BotNames] : n \in 0..MaxBots }

PlayInit ==
  /\ AtRest
  /\ input \in PlayInputs
  /\ output = <<>>

play ==
  /\ output = <<>>
  /\ input \in PlayInputs
  /\ LET keys == dict_keys(input, <<>>)
         bot_groups == array_split(keys, n_sub_processes)
     IN  output' = << [ keys |-> keys,
                        bot_groups |-> bot_groups,
                        bot_index_begin |-> index_begins(bot_groups, 1, 0) ] >>
  /\ UNCHANGED <<input, engine_vars, player_vars, race_vars, loop_vars,
                 history_vars, schedule_vars, flow_vars>>

PlayNext == play

SpecPlay == PlayInit /\ [][PlayNext]_vars

(***************************************************************************)
(* The time keeping of Engine.update on its own (lines 215-232 and 248),   *)
(* for races of any time limit, weather update interval and speedup: the   *)
(* ticks of a race whose updates run to their end and in which somebody is *)
(* still racing.  output holds the engine's clock fields after the last    *)
(* tick, with the race time that tick added.                               *)
(***************************************************************************)
MaxLagInterval == 3
MaxLagLimit == 6
LagSpeedups == {<<>>, <<1>>, <<2>>, <<3>>}

LagInputs ==
  [speedup : LagSpeedups, interval : 1..MaxLagInterval, time_limit : 1..MaxLagLimit]

\* Engine.__init__ line 92 and initialize_time: the forecast of race time 0.
ClockAtStart ==
  [clock_time |-> 0, previous_clock_time |-> 0, current_time |-> 0,
   last_forecast_update |-> 0, forecast_time |-> 0, dt_raw |-> 0,
   running |-> TRUE]

LagInit ==
  /\ AtRest
  /\ input \in LagInputs
  /\ output = <<>>

update_clock_and_forecast ==
  /\ input \in LagInputs
  /\ LET e == IF output = <<>> THEN ClockAtStart ELSE output[1]
     IN  /\ e.running
         /\ \E delta \in TickSeconds :
              LET clock == e.clock_time + delta
                  current == current_time_after(e.current_time,
                                                e.previous_clock_time, clock,
                                                input.speedup)
                  due == forecast_is_due(clock, e.last_forecast_update,
                                         input.interval)
              IN  output' =
                    << [ clock_time |-> clock,
                         previous_clock_time |-> clock,
                         current_time |-> current,
                         last_forecast_update |->
                           IF due THEN clock ELSE e.last_forecast_update,
                         forecast_time |->
                           IF due THEN current ELSE e.forecast_time,
                         dt_raw |-> current - e.current_time,
                         running |-> ~(current > input.time_limit) ] >>
  /\ UNCHANGED <<input, engine_vars, player_vars, race_vars, loop_vars,
                 history_vars, schedule_vars, flow_vars>>

LagNext == update_clock_and_forecast

SpecForecastLag == LagInit /\ [][LagNext]_vars


(***************************************************************************)
(* Properties.                                                             *)
(***************************************************************************)
Occurrences(s, x) == Cardinality({ i \in DOMAIN s : s[i] = x })

AllReached(p) == \A k \in CheckpointIds : reached[p][k]

DistanceToFinish(p) ==
  distance_on_surface(longitude[p], latitude[p], start.longitude, start.latitude)

InFinishRadius(p) == DistanceToFinish(p) < start.radius

DistanceToCheckpoint(p, k) ==
  distance_on_surface(longitude[p], latitude[p],
                      checkpoints[k].longitude, checkpoints[k].latitude)

\* C1: a participant with all checkpoints reached inside the finish radius is
\* marked arrived by the turn that finds it so, and exactly once: no later
\* step gives it a turn of move_players, changes its bonus or its fastest
\* time, or finds it in players_not_arrived, and it is in the order of
\* arrival once.
C1_ArrivedExactlyOnce ==
  [][ \A p \in Teams :
        /\ (pc = "move" /\ turn'.player = p /\ InFinishRadius(p)' /\ AllReached(p)')
             => arrived'[p]
        /\ arrived[p] =>
             /\ arrived'[p]
             /\ ~(pc = "move" /\ turn'.player = p)
             /\ bonus'[p] = bonus[p]
             /\ fastest_times'[p] = fastest_times[p]
             /\ Occurrences(players_not_arrived', p) = 0
             /\ Occurrences(arrival_order', p) = 1 ]_vars

\* A tick after the arrival has run move_players for somebody else.
C1_Witness ==
  \E p \in Teams :
    /\ arrived[p]
    /\ pc = "end"
    /\ moved # {}
    /\ p \notin moved
    /\ fastest_times[p] < current_time

\* C2: of two participants that arrived, the earlier one has the strictly
\* greater bonus; the i-th to arrive has score_step times the number of
\* participants that had not arrived before it.
C2_EarlierArrivalGreaterBonus ==
  /\ \A i, j \in DOMAIN arrival_order :
       i < j => bonus[arrival_order[i]] > bonus[arrival_order[j]]
  /\ \A i \in DOMAIN arrival_order :
       bonus[arrival_order[i]] = score_step * (n_players - i + 1)

\* Two participants have arrived, in different ticks.
C2_Witness ==
  /\ Len(arrival_order) = 2
  /\ fastest_times[arrival_order[1]] < fastest_times[arrival_order[2]]

\* C3: a turn of move_players whose path has its first land point at index 0
\* or 1 leaves the participant's latitude, longitude and distance_travelled
\* as they were.
C3_BlockedByLandStays ==
  [][ (pc = "move" /\ turn'.first_land \in {0, 1}) =>
        /\ latitude'[turn'.player] = latitude[turn'.player]
        /\ longitude'[turn'.player] = longitude[turn'.player]
        /\ distance_travelled'[turn'.player] = distance_travelled[turn'.player]
    ]_vars

\* A turn whose path had land at index 1, for a participant that has moved
\* before.
C3_Witness ==
  /\ pc \in {"move", "end"}
  /\ turn.player \in Teams
  /\ turn.first_land = 1
  /\ distance_travelled[turn.player] > 0

\* C4: in safe mode no tick is left by an exception of a bot: every tick calls the
\* bots of all the players and then gives every player still racing its turn
\* of move_players, and a bot call that raises leaves the heading and the
\* speed of its participant as they were.
C4_SafeModeIsolatesRaise ==
  /\ [](~test => pc # "raised")
  /\ [](~test /\ pc \in {"move", "end"} => invoked = TeamList)
  /\ [](~test /\ pc = "end" => moved = RangeOf(queue))
  /\ [][ (~test /\ pc = "bots" /\ outcome' = "raise") =>
           /\ heading'[TeamList[idx]] = heading[TeamList[idx]]
           /\ speed'[TeamList[idx]] = speed[TeamList[idx]] ]_vars

\* In safe mode the last bot raised and move_players is entered.
C4_Witness ==
  /\ ~test
  /\ outcome = "raise"
  /\ pc = "move"
  /\ invoked = TeamList

\* C5: in unsafe mode a bot call that raises ends the tick: the exception
\* leaves update with the bots after the failing one not called and no turn
\* of move_players taken, and no position, distance, checkpoint or arrival
\* flag changes from the start of the tick until the next one.
C5_UnsafeRaiseAbortsTick ==
  /\ [](pc = "raised" =>
          /\ test
          /\ outcome = "raise"
          /\ moved = {}
          /\ invoked = SubSeq(TeamList, 1, idx))
  /\ [][ (test /\ pc = "bots" /\ outcome' = "raise") => pc' = "raised" ]_vars
  /\ [][ pc = "raised" => pc' = "idle" ]_vars
  /\ [][ (pc = "idle" \/ pc = "bots" \/ pc = "raised") =>
           UNCHANGED <<latitude, longitude, distance_travelled, reached,
                       arrived, bonus>> ]_vars

\* The first bot raised; the second one was not called.
C5_Witness ==
  /\ pc = "raised"
  /\ Len(invoked) < n_players

\* C6: every turn of move_players hands get_path the wind at the position of
\* the participant whose turn it is.
C6_WindAtOwnPosition ==
  [][ pc = "move" =>
        turn'.wind = get_uv(latitude[turn'.player], longitude[turn'.player],
                            current_time) ]_vars

\* C7: a checkpoint's reached flag, once true, stays true.
C7_ReachedIsMonotonic ==
  [][ \A p \in Teams : \A k \in CheckpointIds :
        reached[p][k] => reached'[p][k] ]_vars

\* A participant has had a turn of move_players outside the radius of a
\* checkpoint it reached before.
C7_Witness ==
  \E p \in Teams : \E k \in CheckpointIds :
    /\ reached[p][k]
    /\ p \in moved
    /\ DistanceToCheckpoint(p, k) >= checkpoints[k].radius

\* C8: an arrived participant has all its checkpoints reached and is inside
\* the finish radius (it has not moved since the turn that marked it); so a
\* participant inside the radius with a checkpoint unreached is not arrived.
C8_ArrivedOnlyWhenFinished ==
  \A p \in Teams : arrived[p] => AllReached(p) /\ InFinishRadius(p)

\* One participant has arrived; another had its turn inside the finish
\* radius with a checkpoint unreached and is not arrived.
C8_Witness ==
  \E p, q \in Teams :
    /\ arrived[p]
    /\ q \in moved
    /\ InFinishRadius(q)
    /\ ~AllReached(q)
    /\ ~arrived[q]

\* C9: once a participant is arrived no step changes its position, heading,
\* speed, distance travelled, checkpoints or bonus.
C9_ArrivedIsImmutable ==
  [][ \A p \in Teams :
        arrived[p] =>
          /\ latitude'[p] = latitude[p]
          /\ longitude'[p] = longitude[p]
          /\ heading'[p] = heading[p]
          /\ speed'[p] = speed[p]
          /\ distance_travelled'[p] = distance_travelled[p]
          /\ reached'[p] = reached[p]
          /\ bonus'[p] = bonus[p] ]_vars

\* C10: after set_schedule no group's costs sum to more than another
\* group's plus the largest single cost.
LargestCost ==
  IF times = <<>>
    THEN 0
    ELSE CHOOSE c \in RangeOf(times) : \A d \in RangeOf(times) : d <= c

C10_GreedyBound ==
  scheduled =>
    \A i, j \in DOMAIN time_groups :
      SeqSum(time_groups[i]) - SeqSum(time_groups[j]) <= LargestCost

\* The costs 5, 4, 3, 2, 1 are scheduled in three groups of 5 each.
C10_Witness ==
  /\ scheduled
  /\ times = <<5, 4, 3, 2, 1>>
  /\ time_groups = [i \in 0..2 |-> <<<<5>>, <<4, 1>>, <<3, 2>>>>[i + 1]]

\* C11: after set_schedule every participant is in exactly one group of
\* player_groups, once, and no group of player_groups is empty, whatever the
\* number of participants (none, or fewer than ng, included).
C11_GroupsPartitionPlayers ==
  scheduled =>
    /\ \A p \in 1..Len(times) :
         /\ Cardinality({ g \in DOMAIN player_groups :
                            p \in RangeOf(player_groups[g]) }) = 1
         /\ \A g \in DOMAIN player_groups :
              Occurrences(player_groups[g], p) <= 1
    /\ \A g \in DOMAIN player_groups :
         /\ player_groups[g] # <<>>
         /\ RangeOf(player_groups[g]) \subseteq 1..Len(times)

\* Two participants were scheduled: two groups are kept and the third,
\* left empty, is gone.
C11_Witness ==
  /\ scheduled
  /\ Len(times) = 2
  /\ Cardinality(DOMAIN player_groups) = 2
  /\ Cardinality(DOMAIN time_groups) = ng

\* The player_groups set_schedule computes for the given costs of the
\* players 1..Len(costs).
groups_for(costs) ==
  LET pairs == [p \in 1..Len(costs) |-> <<costs[p], p>>]
      empty == [i \in 0..(ng - 1) |-> <<>>]
      r == assign(sort_descending(pairs, <<>>), empty, empty)
  IN  drop_empty_groups(r.time_groups, r.player_groups)

\* The number of the running tick, counted from 0.
TickNumber == clock_time - 1

\* C12: each tick calls the bots of one execution group only, tick n those of
\* group n mod the number of groups: whatever positive costs set_schedule
\* measured for the players, the teams whose bot a tick has called, once all
\* calls are made, are the teams of that group.
C12_OneGroupPerTick ==
  pc \in {"move", "end"} =>
    \A costs \in [1..n_players -> 1..MaxCost] :
      LET pg == groups_for(costs)
          g == TickNumber % Cardinality(DOMAIN pg)
      IN  RangeOf(invoked) = { TeamList[p] : p \in RangeOf(pg[g]) }

\* C13: the wind lookup is cyclic over the race duration: wherever the
\* lookup at time t succeeds, the lookup one race duration later gives the
\* same wind, for every race duration and update interval.
C13_WindCyclicOverRace ==
  \A k \in DOMAIN output :
    ~output[k].now.raised =>
      /\ ~output[k].later.raised
      /\ output[k].later.uv = output[k].now.uv

\* C14: for a latitude in [-90, 90], a longitude in [-180, 180) and any time
\* the indices get_uv computes are inside the field and the lookup does not
\* raise.
C14_IndicesInsideField ==
  \A k \in DOMAIN output :
    /\ 0 <= output[k].it /\ output[k].it < output[k].steps
    /\ 0 <= output[k].iv /\ output[k].iv < ny
    /\ 0 <= output[k].iu /\ output[k].iu < nx
    /\ ~output[k].now.raised
    /\ ~output[k].later.raised

\* C15: wrap is idempotent for every latitude and longitude, and it returns
\* a latitude inside [-90, 90] as it is.
C15_WrapIdempotent ==
  \A k \in DOMAIN output :
    /\ output[k].twice = output[k].once
    /\ (-90 <= input.lat /\ input.lat <= 90) => output[k].once.lat = input.lat

\* C16: longitude_difference(lon1, lon2) is the value in (-180, 180] that is
\* congruent to lon1 - lon2 modulo 360: 20 for (10, 350), -20 for (350, 10).
C16_ShortestSignedDifference ==
  \A k \in DOMAIN output :
    /\ -180 < output[k] /\ output[k] <= 180
    /\ (output[k] - (input.lon1 - input.lon2)) % 360 = 0

\* The first row or column of the block of k + 1 that holds index j.
BlockCorner(j, k) == (j \div (k + 1)) * (k + 1)

\* C17: get_forecast(t) returns one snapshot per forecast time; snapshot k is
\* ny by nx cells, is constant over blocks of (k+1) by (k+1) cells and holds
\* in each block the field's value at the block's first cell, at the time
\* index floor((t + forecast_times[k]) / dt) mod nt; snapshot 0 is the field
\* at the time index of t.
C17_ForecastSnapshots ==
  \A c \in DOMAIN output :
    LET f == output[c]
        steps == number_of_steps(input.time_limit, input.interval)
        ft == forecast_times(input.forecast_length, input.interval)
    IN  /\ DOMAIN f = DOMAIN ft
        /\ \A k \in DOMAIN f :
             /\ DOMAIN f[k] = 0..(ny - 1)
             /\ \A j \in DOMAIN f[k] :
                  /\ DOMAIN f[k][j] = 0..(nx - 1)
                  /\ \A i \in DOMAIN f[k][j] :
                       /\ f[k][j][i] =
                            WindField(((input.t + ft[k]) \div input.interval) % steps,
                                      BlockCorner(j, k), BlockCorner(i, k))
                       /\ \A j2 \in DOMAIN f[k] : \A i2 \in DOMAIN f[k][j2] :
                            (BlockCorner(j2, k) = BlockCorner(j, k)
                               /\ BlockCorner(i2, k) = BlockCorner(i, k))
                            => f[k][j2][i2] = f[k][j][i]
        /\ \A j \in 0..(ny - 1) : \A i \in 0..(nx - 1) :
             f[0][j][i] = WindField((input.t \div input.interval) % steps, j, i)

\* A forecast of at least three snapshots, taken after the start from a
\* field of several time steps: snapshot 1 is of another time step than
\* snapshot 0 and is coarser.
C17_Witness ==
  \E c \in DOMAIN output :
    /\ input.t > 0
    /\ Cardinality(DOMAIN output[c]) >= 3
    /\ output[c][1][0][0] # output[c][0][0][0]
    /\ output[c][1][0][1] = output[c][1][0][0]
    /\ output[c][0][0][1] # output[c][0][0][0]

\* C18: the engine polls the game-flow flags once per tick: once the exit
\* flag is set at most one more tick begins, and while the pause flag is set
\* no step changes a participant's position, distance, checkpoints, arrival
\* or bonus.
C18_FlagsStopTheTicks ==
  /\ [](game_flow[2] = 1 => clock_time <= exit_requested_at + 1)
  /\ [][ game_flow[1] = 1 =>
           UNCHANGED <<latitude, longitude, distance_travelled, reached,
                       arrived, bonus>> ]_vars

\* The indices of the player-position buffer that belong to engine w.
IndexRange(o, w) ==
  { o.bot_index_begin[w] + d : d \in 0..(Len(o.bot_groups[w]) - 1) }

\* C19: play gives every participant to exactly one engine process: the bot
\* groups are pairwise disjoint and together hold every team once, and the
\* index ranges [bot_index_begin, bot_index_begin + group size) are pairwise
\* disjoint and cover 0 .. number of participants - 1.
C19_WorkersOwnDisjointParts ==
  \A c \in DOMAIN output :
    LET o == output[c]
        workers == 1..n_sub_processes
    IN  /\ DOMAIN o.bot_groups = workers
        /\ DOMAIN o.bot_index_begin = workers
        /\ \A v, w \in workers :
             v # w =>
               /\ RangeOf(o.bot_groups[v]) \cap RangeOf(o.bot_groups[w]) = {}
               /\ IndexRange(o, v) \cap IndexRange(o, w) = {}
        /\ UNION { RangeOf(o.bot_groups[w]) : w \in workers } = RangeOf(input)
        /\ \A name \in RangeOf(input) : \A w \in workers :
             Occurrences(o.bot_groups[w], name) <= 1
        /\ UNION { IndexRange(o, w) : w \in workers }
             = 0..(Cardinality(RangeOf(input)) - 1)

\* Three teams are split in a group of two and a group of one, the second
\* beginning at index 2.
C19_Witness ==
  \E c \in DOMAIN output :
    /\ Len(output[c].keys) = 3
    /\ Len(output[c].bot_groups[1]) = 2
    /\ Len(output[c].bot_groups[2]) = 1
    /\ output[c].bot_index_begin = <<0, 2>>

\* C20: no step increases a stored fastest time: the step in which a
\* participant arrives, at race time current_time, stores the smaller of
\* current_time and the time stored before, and every other step leaves the
\* participant's stored time as it is.
C20_FastestTimeNeverIncreases ==
  [][ \A p \in Teams :
        /\ fastest_times'[p] <= fastest_times[p]
        /\ (arrived'[p] /\ ~arrived[p]) =>
             fastest_times'[p] =
               (IF current_time < fastest_times[p]
                  THEN current_time ELSE fastest_times[p])
        /\ ~(arrived'[p] /\ ~arrived[p]) =>
             fastest_times'[p] = fastest_times[p] ]_vars

\* One participant arrived in this tick later than its stored time and
\* keeps the stored time; the other arrived with no time stored and has the
\* time of its arrival.
C20_Witness ==
  \E p, q \in Teams :
    /\ arrived[p]
    /\ p \in moved
    /\ fastest_times[p] < current_time
    /\ arrived[q]
    /\ fastest_times[q] >= 2
    /\ fastest_times[q] <= current_time

\* C21: a turn of move_players for a path of zero points or of one point
\* does not raise (the loop goes on to its next turn or move_players
\* returns); the participant keeps its position and its distance_travelled,
\* and the checkpoint and finish tests are made at that position: a
\* checkpoint within its radius becomes reached, and the participant arrives
\* exactly when it is within the finish radius with every checkpoint reached.
C21_DegeneratePathStays ==
  [][ (pc = "move" /\ turn'.points \in {0, 1}) =>
        LET p == queue[idx]
        IN  /\ pc' \in {"move", "end"}
            /\ p \in moved'
            /\ latitude'[p] = latitude[p]
            /\ longitude'[p] = longitude[p]
            /\ distance_travelled'[p] = distance_travelled[p]
            /\ \A k \in CheckpointIds :
                 reached'[p][k] =
                   (reached[p][k] \/ DistanceToCheckpoint(p, k) < checkpoints[k].radius)
            /\ arrived'[p] = (InFinishRadius(p) /\ \A k \in CheckpointIds : reached'[p][k])
    ]_vars

\* An empty path was offered to a participant that had sailed away from the
\* start in an earlier tick, and the turn is over.
C21_Witness ==
  /\ pc \in {"move", "end"}
  /\ turn.points = 0
  /\ turn.player \in Teams
  /\ distance_travelled[turn.player] > 0
  /\ latitude[turn.player] # start.latitude
  /\ ~arrived[turn.player]

\* C22: every participant is on a sea cell in every reachable state (the
\* start is one), and a turn of move_players that changes a participant's
\* position was for a path whose first land point, if it has one, lies
\* beyond index 1: the point committed is the one before it, or the last
\* point of a path without land, and every point up to it is sea.
OnSea(p) == get_terrain([latitude |-> latitude[p], longitude |-> longitude[p]]) = 1

C22_ParticipantsStayOnSea ==
  /\ [](\A p \in Teams : OnSea(p))
  /\ [][ (pc = "move" /\ \E p \in Teams : latitude'[p] # latitude[p]
                                          \/ longitude'[p] # longitude[p]) =>
           /\ turn'.first_land = -1 \/ turn'.first_land >= 2
           /\ turn'.points >= 2
           /\ \A q \in Teams \ {turn'.player} :
                latitude'[q] = latitude[q] /\ longitude'[q] = longitude[q]
     ]_vars

\* A participant has left the start on a path that reaches land at its third
\* point: it is at the second point, on sea.
C22_Witness ==
  /\ pc \in {"move", "end"}
  /\ turn.first_land = 2
  /\ turn.player \in Teams
  /\ latitude[turn.player] # start.latitude \/ longitude[turn.player] # start.longitude
  /\ OnSea(turn.player)

\* C23: between two ticks players_not_arrived holds exactly the teams whose
\* arrived flag is false, each once; and the k-th participant to arrive got
\* the bonus of a list of n_players - k + 1 teams.
C23_NotArrivedMatchesFlags ==
  /\ pc = "idle" =>
       /\ RangeOf(players_not_arrived) = { p \in Teams : ~arrived[p] }
       /\ \A p \in Teams : Occurrences(players_not_arrived, p) <= 1
  /\ \A k \in DOMAIN arrival_order :
       bonus[arrival_order[k]] = score_step * (n_players - k + 1)

\* Both participants have arrived, one after the other, and the tick is over.
C23_Witness ==
  /\ pc = "idle"
  /\ Len(arrival_order) = n_players
  /\ players_not_arrived = <<>>
  /\ \A p \in Teams : arrived[p]

\* C24: once shutdown has run, no participant's position, distance
\* travelled, checkpoint flags, arrived flag or bonus changes any more, the
\* tick in which current_time first exceeds time_limit included.
C24_NothingChangesAfterShutdown ==
  [][ (shutdown_calls > 0) =>
        UNCHANGED <<latitude, longitude, distance_travelled, reached, arrived, bonus>>
    ]_vars

\* C25: shutdown (score finalization and the write of the fastest times)
\* runs at most once in a race, whatever the ticks are.
C25_ShutdownAtMostOnce == shutdown_calls <= 1

\* C26: with a timer that keeps firing (the process is not aborted) and a
\* clock that advances, every race ends: the timer is stopped for good with no
\* update in progress.  The timer is stopped only by shutdown, called in a
\* tick whose current_time exceeds time_limit or at whose end nobody remains
\* unarrived; once it is stopped and the update is over no tick runs; and
\* the race never runs up to the last clock reading that is followed.
C26_RaceTerminates ==
  /\ [](timer = "running" => clock_time < MaxClock)
  /\ ([](timer # "crashed")) => <>[](timer = "stopped" /\ pc = "idle")
  /\ [][ (timer = "running" /\ timer' = "stopped") =>
           /\ shutdown_calls' = shutdown_calls + 1
           /\ current_time' > time_limit \/ Len(players_not_arrived) = 0 ]_vars
  /\ [][ ~(timer # "running" /\ pc = "idle") ]_vars

\* The time limit has ended a race in which a participant has not arrived:
\* the timer is stopped and the last update is over.
C26_Witness ==
  /\ timer = "stopped"
  /\ pc = "idle"
  /\ shutdown_calls >= 1
  /\ current_time > time_limit
  /\ players_not_arrived # <<>>

\* C27: whatever the speedup, the forecast the bots are handed in a tick was
\* generated for a race time that lies behind the tick's race time by at
\* most one weather_update_interval plus the race time of one tick.
C27_ForecastLagBounded ==
  output # <<>> =>
    output[1].current_time - output[1].forecast_time
      <= input.interval + output[1].dt_raw

====
